---- MODULE Spec2Model ----
(***************************************************************************)
(* Model of src/run_analysis.py: a straight-line batch report generator.   *)
(* The script creates two output directories, loads two CSV tables and     *)
(* then runs a fixed sequence of analysis steps, each writing one file.    *)
(* Any unhandled fault aborts the process at the step that raised it.      *)
(*                                                                         *)
(* Claim amounts are real numbers; they are modelled in fixed point, as    *)
(* integer multiples of 1/Scale.  Percentages are integers in hundredths.  *)
(***************************************************************************)
EXTENDS Integers, Sequences, FiniteSets

\* ---------------------------------------------------------------- bounds
MaxLen == 3          \* most rows in an enumerated claims table
Scale == 2           \* fixed-point resolution: amounts are multiples of 1/Scale

\* ------------------------------------------------------ program constants
BinWidth == 400      \* step of np.arange
StopPad == 401       \* added to the maximum to form np.arange's stop
Threshold == 2500    \* empirical-probability threshold
PctDecimals == 2     \* .round(2)
ProbDecimals == 4    \* :.4f
EvDecimals == 2      \* :.2f

FIG_DIR == "figures"
OUT_DIR == "outputs"
Dirs == {FIG_DIR, OUT_DIR}

VARIABLES
    pc,          \* position of the script
    faultAt,     \* step at which the run aborted, "none" otherwise
    fs,          \* file system: what exists at each output directory path
    claimsCsv,   \* state of data/claims.csv: "ok" or "missing"
    revenueCsv,  \* state of data/revenue_monthly.csv: "ok" or "missing"
    claims,      \* the loaded claims table (sequence of rows)
    loaded,      \* set of tables loaded so far
    files,       \* output files written so far in this run
    bins,        \* bin edges (fixed point)
    freq_df,     \* frequency table rows
    hist,        \* counts drawn by the claim-amount histogram
    chi,         \* result of the independence test
    cats,        \* expected-value table
    ev,          \* expected-value scalar and its printed form
    p_gt_2500    \* empirical probability and its printed form

vars == <<pc, faultAt, fs, claimsCsv, revenueCsv, claims, loaded, files,
          bins, freq_df, hist, chi, cats, ev, p_gt_2500>>

\* ------------------------------------------------------------ arithmetic
RECURSIVE SumSeq(_)
SumSeq(s) == IF s = <<>> THEN 0 ELSE s[1] + SumSeq(Tail(s))

RECURSIVE MaxSeq(_)
MaxSeq(s) == IF Len(s) = 1 THEN s[1]
             ELSE LET m == MaxSeq(Tail(s)) IN IF s[1] > m THEN s[1] ELSE m

RECURSIVE Pow10(_)
Pow10(k) == IF k = 0 THEN 1 ELSE 10 * Pow10(k - 1)

CeilDiv(n, d) == (n + d - 1) \div d

\* round(n/d) to an integer, ties to even (numpy's rint, Python's format)
RoundHalfEven(n, d) ==
    LET q == n \div d
        r == n % d
    IN  IF 2 * r < d THEN q
        ELSE IF 2 * r > d THEN q + 1
        ELSE IF q % 2 = 0 THEN q ELSE q + 1

\* the k decimal digits of n, most significant first
Digits(n, k) == [i \in 1..k |-> (n \div Pow10(k - i)) % 10]

\* f"{num/den:.{k}f}": integer part and k fractional digits
FormatFixed(num, den, k) ==
    LET q == RoundHalfEven(num * Pow10(k), den)
    IN  [int |-> q \div Pow10(k), frac |-> Digits(q % Pow10(k), k)]

\* ------------------------------------------------- file system and input
\* os.makedirs(d, exist_ok=False): an existing path of any kind is a fault
MakeDirsStrict(state) ==
    IF state = "absent" THEN {"dir", "fault"} ELSE {"fault"}

\* os.makedirs(d, exist_ok=True): the outcomes for a path in the given state.
\* An existing directory is left alone, an existing non-directory raises
\* FileExistsError, a missing one is created unless the OS refuses.
MakeDirs(state) ==
    IF state = "dir" THEN {"dir"}
    ELSE IF state = "file" THEN {"fault"}
    ELSE {"dir", "fault"}

\* a reader that swallows the error and carries on with an empty table
ReadCsvLenient(file) == TRUE

\* pd.read_csv(path): succeeds iff the file is present and well-formed
ReadCsv(file) == file = "ok"

\* ------------------------------------------------------ claim-amount data
Amount(rows) == [i \in DOMAIN rows |-> rows[i].ClaimAmount]

\* ------------------------------------------------- frequency distribution
\* np.arange(start, stop, step): start + i*step for 0 <= i < ceil((stop-start)/step)
Arange(start, stop, step) ==
    LET n == IF stop > start THEN CeilDiv(stop - start, step) ELSE 0
    IN  [i \in 1..n |-> start + (i - 1) * step]

\* bins = np.arange(0, max + 401, 400)
Bins(a) == Arange(0, MaxSeq(a) + StopPad * Scale, BinWidth * Scale)

\* labels = [f"{int(bins[i])}-{int(bins[i+1]-1)}" ...]: the two printed integers
Labels(b) ==
    [i \in 1..(Len(b) - 1) |->
        [lo |-> b[i] \div Scale, hi |-> (b[i + 1] - Scale) \div Scale]]

\* bins.searchsorted(x, side="left"): number of edges strictly below x
SearchSortedLeft(b, x) == Cardinality({j \in DOMAIN b : b[j] < x})

\* bins.searchsorted(x, side="right"): number of edges at or below x
SearchSortedRight(b, x) == Cardinality({j \in DOMAIN b : b[j] <= x})

\* pd.cut(..., right=False): left-closed bins
CutLeftClosed(x, b) ==
    LET ids == SearchSortedRight(b, x)
    IN  IF ids = 0 \/ ids = Len(b) THEN 0 ELSE ids

\* pd.cut(x, bins=b, right=True, include_lowest=True): the 1-based bin of x,
\* 0 when x falls outside every bin (NaN category)
Cut(x, b) ==
    LET ids == IF x = b[1] THEN 1 ELSE SearchSortedLeft(b, x)
    IN  IF ids = 0 \/ ids = Len(b) THEN 0 ELSE ids

\* cut.value_counts().sort_index(): one count per category, in bin order
ValueCounts(a, b) ==
    [j \in 1..(Len(b) - 1) |-> Cardinality({i \in DOMAIN a : Cut(a[i], b) = j})]

\* the percentage left as a fraction of 1
RelativeFraction(f) ==
    [j \in DOMAIN f |-> RoundHalfEven(f[j] * Pow10(PctDecimals), SumSeq(f))]

\* (Frequency / Frequency.sum() * 100).round(2), in hundredths of a percent
RelativePct(f) ==
    [j \in DOMAIN f |-> RoundHalfEven(f[j] * 100 * Pow10(PctDecimals), SumSeq(f))]

\* Series.cumsum().round(2) of values that are already whole hundredths
CumSum(s) == [j \in DOMAIN s |-> SumSeq(SubSeq(s, 1, j))]

\* freq_df: Range, Frequency, Relative %, Cumulative %
FreqTable(a, b) ==
    LET lab == Labels(b)
        f   == ValueCounts(a, b)
        rel == RelativePct(f)
        cum == CumSum(rel)
    IN  [j \in DOMAIN f |->
            [Range |-> lab[j], Frequency |-> f[j],
             RelativePct |-> rel[j], CumulativePct |-> cum[j]]]

\* plt.hist(a, bins=b) -> np.histogram: bins are [lo, hi), the last one [lo, hi]
Histogram(a, b) ==
    LET nb == Len(b) - 1
    IN  [j \in 1..nb |->
            Cardinality({i \in DOMAIN a :
                \/ b[j] <= a[i] /\ a[i] < b[j + 1]
                \/ j = nb /\ a[i] = b[j + 1]})]

\* ------------------------------------------------------ independence test
\* the distinct values of a column, ascending
RECURSIVE SortedSeq(_)
SortedSeq(S) ==
    IF S = {} THEN <<>>
    ELSE LET m == CHOOSE x \in S : \A y \in S : x <= y
         IN  <<m>> \o SortedSeq(S \ {m})

\* pd.crosstab(claims["Denied"], claims["IsSmoker"]): one row per Denied value
\* present, one column per IsSmoker value present, cells are row counts
Crosstab(rows) ==
    LET index   == SortedSeq({rows[i].Denied : i \in DOMAIN rows})
        columns == SortedSeq({rows[i].IsSmoker : i \in DOMAIN rows})
    IN  [index |-> index, columns |-> columns,
         cells |-> [r \in DOMAIN index |-> [c \in DOMAIN columns |->
             Cardinality({i \in DOMAIN rows :
                 rows[i].Denied = index[r] /\ rows[i].IsSmoker = columns[c]})]]]

RowTotals(m) == [r \in DOMAIN m |-> SumSeq(m[r])]
ColTotals(m) == [c \in DOMAIN m[1] |-> SumSeq([r \in DOMAIN m |-> m[r][c]])]

\* degrees of freedom taken as the number of cells minus one
ChiDofCells(m) == Len(m) * Len(m[1]) - 1

\* scipy: dof = observed.size - sum(observed.shape) + observed.ndim - 1
ChiDof(m) == Len(m) * Len(m[1]) - (Len(m) + Len(m[1])) + 2 - 1

\* scipy expected_freq: outer product of the margins over the grand total,
\* kept as exact fractions num/den
ChiExpected(m) ==
    LET rt == RowTotals(m)
        ct == ColTotals(m)
    IN  [r \in DOMAIN m |-> [c \in DOMAIN m[1] |->
            [num |-> rt[r] * ct[c], den |-> SumSeq(rt)]]]

\* stats.chi2_contingency(cont): dof and expected table
Chi2Contingency(rows) ==
    LET cont == Crosstab(rows)
    IN  [cont |-> cont, dof |-> ChiDof(cont.cells), exp |-> ChiExpected(cont.cells)]

\* ---------------------------------------------------------- expected value
\* the fixed table; Prob is held in hundredths (0.62 -> 62)
CatType == <<"Routine", "Specialist", "Emergency">>
CatProb == <<62, 28, 10>>
CatAvgCost == <<1000, 3000, 10000>>

\* a row's contribution taken as its cost alone
ContributionCostOnly(prob, cost) == 100 * cost

\* cats["Prob"] * cats["AvgCost"], in hundredths
Contribution(prob, cost) == prob * cost

Cats ==
    [i \in DOMAIN CatType |->
        [Type |-> CatType[i], Prob |-> CatProb[i], AvgCost |-> CatAvgCost[i],
         Contribution |-> Contribution(CatProb[i], CatAvgCost[i])]]

\* ev = cats["Contribution"].sum() and f"{ev:.2f}"
ExpectedValue(t) ==
    LET total == SumSeq([i \in DOMAIN t |-> t[i].Contribution])
    IN  [value |-> total, text |-> FormatFixed(total, 100, EvDecimals)]

\* ---------------------------------------------------- empirical probability
\* claims["ClaimAmount"] >= t
GeMask(a, t) == [i \in DOMAIN a |-> a[i] >= t * Scale]

\* claims["ClaimAmount"] > t
GtMask(a, t) == [i \in DOMAIN a |-> a[i] > t * Scale]

\* Series.mean() of a boolean mask, and f"{p:.4f}"
MaskMean(mask) ==
    LET k == SumSeq([i \in DOMAIN mask |-> IF mask[i] THEN 1 ELSE 0])
    IN  [num |-> k, den |-> Len(mask), text |-> FormatFixed(k, Len(mask), ProbDecimals)]

\* ------------------------------------------------------------ input tables
Row(a, s, d) == [ClaimAmount |-> a, IsSmoker |-> s, Denied |-> d]

SeqsUpTo(S, n) == UNION {[1..k -> S] : k \in 1..n}

\* amounts on, just below and just above the bin edges
FreqAmounts ==
    {0, Scale, BinWidth * Scale - 1, BinWidth * Scale, BinWidth * Scale + 1,
     2 * BinWidth * Scale - Scale, 2 * BinWidth * Scale, 2 * BinWidth * Scale + 1}

\* amounts on and around the probability threshold
ProbAmounts ==
    {100 * Scale, Threshold * Scale, Threshold * Scale + 1, 2600 * Scale}

\* the end-to-end scenario of the specification
ScenarioAmounts == <<100, 500, 900, 2600, 5000>>
Scenario == [i \in DOMAIN ScenarioAmounts |-> Row(ScenarioAmounts[i] * Scale, i % 2, 0)]

ClaimsData ==
    SeqsUpTo({Row(a, 0, 0) : a \in FreqAmounts}, MaxLen)
    \cup SeqsUpTo({Row(a, 1, 0) : a \in ProbAmounts}, MaxLen)
    \cup SeqsUpTo({Row(100 * Scale, k \div 2, k % 2) : k \in 0..3}, MaxLen)
    \cup {Scenario}

\* ------------------------------------------------------------ state machine
NoChi == [cont |-> [index |-> <<>>, columns |-> <<>>, cells |-> <<>>],
          dof |-> 0, exp |-> <<>>]
NoEv == [value |-> 0, text |-> [int |-> 0, frac |-> <<>>]]
NoProb == [num |-> 0, den |-> 0, text |-> [int |-> 0, frac |-> <<>>]]

Init ==
    /\ pc = "makedirs_fig"
    /\ faultAt = "none"
    /\ fs \in [Dirs -> {"absent", "dir", "file"}]
    /\ claimsCsv \in {"ok", "missing"}
    /\ revenueCsv \in {"ok", "missing"}
    /\ claims = <<>>
    /\ loaded = {}
    /\ files = {}
    /\ bins = <<>>
    /\ freq_df = <<>>
    /\ hist = <<>>
    /\ chi = NoChi
    /\ cats = <<>>
    /\ ev = NoEv
    /\ p_gt_2500 = NoProb

results == <<bins, freq_df, hist, chi, cats, ev, p_gt_2500>>
inputs == <<claimsCsv, revenueCsv>>

\* an unhandled exception at step `at`: the process ends, what was written stays
Fault(at) ==
    /\ pc' = "aborted"
    /\ faultAt' = at
    /\ UNCHANGED <<fs, inputs, claims, loaded, files, results>>

\* a successful write of file `name` into directory `dir`, then on to `next`
Write(dir, name, next) ==
    /\ fs[dir] = "dir"
    /\ files' = files \cup {name}
    /\ pc' = next
    /\ UNCHANGED <<faultAt, fs, inputs, claims, loaded>>

\* os.makedirs(d, exist_ok=True) at step `at`
MakeDirStep(at, d, next) ==
    /\ pc = at
    /\ \E outcome \in MakeDirs(fs[d]) :
        IF outcome = "fault" THEN Fault(at)
        ELSE /\ fs' = [fs EXCEPT ![d] = outcome]
             /\ pc' = next
             /\ UNCHANGED <<faultAt, inputs, claims, loaded, files, results>>

\* a step that computes a statistic or a plot this model does not follow
\* and writes it
PlainStep(at, dir, name, next) ==
    /\ pc = at
    /\ \/ Write(dir, name, next) /\ UNCHANGED results
       \/ Fault(at)

MakeFigDir == MakeDirStep("makedirs_fig", FIG_DIR, "makedirs_out")
MakeOutDir == MakeDirStep("makedirs_out", OUT_DIR, "load_claims")

LoadClaims ==
    /\ pc = "load_claims"
    /\ IF ReadCsv(claimsCsv)
       THEN \E rows \in ClaimsData :
               /\ claims' = rows
               /\ loaded' = loaded \cup {"claims"}
               /\ pc' = "load_revenue"
               /\ UNCHANGED <<faultAt, fs, inputs, files, results>>
       ELSE Fault("load_claims")

LoadRevenue ==
    /\ pc = "load_revenue"
    /\ IF ReadCsv(revenueCsv)
       THEN /\ loaded' = loaded \cup {"revenue"}
            /\ pc' = "descriptive"
            /\ UNCHANGED <<faultAt, fs, inputs, claims, files, results>>
       ELSE Fault("load_revenue")

Descriptive ==
    PlainStep("descriptive", OUT_DIR, "descriptive_stats_claims.csv", "frequency")

Frequency ==
    /\ pc = "frequency"
    /\ \/ /\ bins' = Bins(Amount(claims))
          /\ freq_df' = FreqTable(Amount(claims), Bins(Amount(claims)))
          /\ Write(OUT_DIR, "frequency_distribution_claims.csv", "histogram")
          /\ UNCHANGED <<hist, chi, cats, ev, p_gt_2500>>
       \/ Fault("frequency")

HistClaims ==
    /\ pc = "histogram"
    /\ \/ /\ hist' = Histogram(Amount(claims), bins)
          /\ Write(FIG_DIR, "hist_claim_amounts.png", "box_all")
          /\ UNCHANGED <<bins, freq_df, chi, cats, ev, p_gt_2500>>
       \/ Fault("histogram")

BoxAll == PlainStep("box_all", FIG_DIR, "box_claim_all.png", "box_dept")
BoxDept == PlainStep("box_dept", FIG_DIR, "box_claim_by_dept.png", "correlation")
Correlation == PlainStep("correlation", OUT_DIR, "correlation_matrix.csv", "covariance")
Covariance == PlainStep("covariance", OUT_DIR, "covariance_matrix.csv", "scatter")
Scatter == PlainStep("scatter", FIG_DIR, "scatter_age_claim.png", "ttest")
TTest == PlainStep("ttest", OUT_DIR, "t_test_smoker_vs_nonsmoker.txt", "anova")
Anova == PlainStep("anova", OUT_DIR, "anova_by_department.txt", "chisq")

ChiSquare ==
    /\ pc = "chisq"
    /\ \/ /\ chi' = Chi2Contingency(claims)
          /\ Write(OUT_DIR, "chi_square_denied_vs_smoker.txt", "ev_table")
          /\ UNCHANGED <<bins, freq_df, hist, cats, ev, p_gt_2500>>
       \/ Fault("chisq")

ExpectedValueTable ==
    /\ pc = "ev_table"
    /\ \/ /\ cats' = Cats
          /\ ev' = ExpectedValue(Cats)
          /\ Write(OUT_DIR, "expected_value_table.csv", "ev_result")
          /\ UNCHANGED <<bins, freq_df, hist, chi, p_gt_2500>>
       \/ Fault("ev_table")

ExpectedValueResult ==
    PlainStep("ev_result", OUT_DIR, "expected_value_result.txt", "probability")

Probability ==
    /\ pc = "probability"
    /\ \/ /\ p_gt_2500' = MaskMean(GtMask(Amount(claims), Threshold))
          /\ Write(OUT_DIR, "probability_demo.txt", "hist_revenue")
          /\ UNCHANGED <<bins, freq_df, hist, chi, cats, ev>>
       \/ Fault("probability")

HistRevenue == PlainStep("hist_revenue", FIG_DIR, "hist_revenue.png", "revenue_stats")

RevenueStats ==
    PlainStep("revenue_stats", OUT_DIR, "revenue_descriptive_stats.csv", "done")

Next ==
    \/ MakeFigDir \/ MakeOutDir \/ LoadClaims \/ LoadRevenue
    \/ Descriptive \/ Frequency \/ HistClaims \/ BoxAll \/ BoxDept
    \/ Correlation \/ Covariance \/ Scatter \/ TTest \/ Anova \/ ChiSquare
    \/ ExpectedValueTable \/ ExpectedValueResult \/ Probability
    \/ HistRevenue \/ RevenueStats

Spec == Init /\ [][Next]_vars

\* ================================================================ properties
FreqDone == "frequency_distribution_claims.csv" \in files
HistDone == "hist_claim_amounts.png" \in files
ChiDone == "chi_square_denied_vs_smoker.txt" \in files
EvTableDone == "expected_value_table.csv" \in files
EvResultDone == "expected_value_result.txt" \in files
ProbDone == "probability_demo.txt" \in files

Abs(x) == IF x < 0 THEN -x ELSE x
Column(t, f) == [j \in DOMAIN t |-> t[j][f]]

\* C1: no output file is written until both tables have been loaded
\* successfully, and a run that faults while loading ends with no output file.
C1_LoadBeforeOutput ==
    /\ files # {} =>
          /\ claimsCsv = "ok" /\ revenueCsv = "ok"
          /\ loaded = {"claims", "revenue"}
    /\ pc = "aborted" /\ faultAt \in {"load_claims", "load_revenue"} => files = {}

\* a run aborted by the second load, after the first succeeded and both
\* directories were created
C1_Witness ==
    /\ pc = "aborted" /\ faultAt = "load_revenue"
    /\ claimsCsv = "ok" /\ loaded = {"claims"}
    /\ \A d \in Dirs : fs[d] = "dir"
    /\ files = {}

\* C2: the Relative % column sums to 100.00 up to half a hundredth for every
\* non-empty bin, the Cumulative % column never decreases, and its last value
\* is the sum of the Relative % column.
C2_PercentagesSum ==
    FreqDone =>
        LET rel == Column(freq_df, "RelativePct")
            cum == Column(freq_df, "CumulativePct")
            nonEmpty == Cardinality({j \in DOMAIN freq_df : freq_df[j].Frequency > 0})
            n == Len(freq_df)
        IN  /\ n >= 1
            /\ 2 * Abs(SumSeq(rel) - 100 * Pow10(PctDecimals)) <= nonEmpty
            /\ \A j \in 1..(n - 1) : cum[j] <= cum[j + 1]
            /\ cum[n] = SumSeq(rel)

\* three bins of one observation each: 33.33 + 33.33 + 33.33 = 99.99
C2_Witness ==
    /\ FreqDone
    /\ SumSeq(Column(freq_df, "RelativePct")) = 9999
    /\ freq_df[Len(freq_df)].CumulativePct = 9999

\* C3: the bin edges are 0, 400, 800, ... and the last edge is the smallest
\* multiple of 400 strictly greater than the maximum amount.
C3_LastEdgeIsFirstMultipleAboveMax ==
    FreqDone =>
        LET M == MaxSeq(Amount(claims))
            n == Len(bins)
        IN  /\ n >= 2
            /\ \A i \in 1..n : bins[i] = (i - 1) * BinWidth * Scale
            /\ bins[n] > M
            /\ bins[n - 1] <= M

\* v is counted in bin j under right-closed binning with an inclusive lowest edge
InBin(v, j) == (bins[j] < v /\ v <= bins[j + 1]) \/ (v = 0 /\ j = 1)

\* C4: every amount lies in exactly one right-closed bin (the first bin also
\* takes 0), each row's Frequency counts exactly those amounts, and the
\* Frequency column sums to the number of observations.
C4_RightClosedBinning ==
    FreqDone =>
        LET a == Amount(claims)
        IN  /\ \A i \in DOMAIN a :
                   Cardinality({j \in DOMAIN freq_df : InBin(a[i], j)}) = 1
            /\ \A j \in DOMAIN freq_df :
                   freq_df[j].Frequency = Cardinality({i \in DOMAIN a : InBin(a[i], j)})
            /\ SumSeq(Column(freq_df, "Frequency")) = Len(claims)

\* a table holding both an amount of 0 and an amount exactly on the edge 400
C4_Witness ==
    /\ FreqDone
    /\ \E i \in DOMAIN claims : claims[i].ClaimAmount = 0
    /\ \E i \in DOMAIN claims : claims[i].ClaimAmount = BinWidth * Scale
    /\ freq_df[1].Frequency = Len(claims)

\* C5: the empirical probability is count(amount > 2500) / count(all), strict,
\* lies in [0,1], and for the scenario table is 2/5, printed 0.4000.
C5_EmpiricalProbability ==
    ProbDone =>
        LET a == Amount(claims)
            over == {i \in DOMAIN a : ~(a[i] <= Threshold * Scale)}
        IN  /\ p_gt_2500.num = Cardinality(over)
            /\ p_gt_2500.den = Len(claims)
            /\ 0 <= p_gt_2500.num /\ p_gt_2500.num <= p_gt_2500.den
            /\ claims = Scenario =>
                  /\ 5 * p_gt_2500.num = 2 * p_gt_2500.den
                  /\ p_gt_2500.text = [int |-> 0, frac |-> <<4, 0, 0, 0>>]

\* a table with an amount of exactly 2500 and one above it
C5_Witness ==
    /\ ProbDone
    /\ \E i \in DOMAIN claims : claims[i].ClaimAmount = Threshold * Scale
    /\ p_gt_2500.num = 1 /\ p_gt_2500.den = 2

\* C6: degrees of freedom are (rows-1) x (cols-1), every expected count is
\* row-total x column-total / grand-total, and the expected table has the
\* observed table's row totals, column totals and grand total.
C6_ChiSquareShape ==
    ChiDone =>
        LET obs == chi.cont.cells
            R == Len(obs)
            C == Len(obs[1])
            N == Len(claims)
            rowObs(r) == SumSeq(obs[r])
            colObs(c) == SumSeq([r \in 1..R |-> obs[r][c]])
        IN  /\ chi.dof = (R - 1) * (C - 1)
            /\ \A r \in 1..R : \A c \in 1..C :
                   /\ chi.exp[r][c].den = N
                   /\ chi.exp[r][c].num = rowObs(r) * colObs(c)
            /\ \A r \in 1..R :
                   SumSeq([c \in 1..C |-> chi.exp[r][c].num]) = rowObs(r) * N
            /\ \A c \in 1..C :
                   SumSeq([r \in 1..R |-> chi.exp[r][c].num]) = colObs(c) * N
            /\ SumSeq([r \in 1..R |-> SumSeq([c \in 1..C |-> chi.exp[r][c].num])])
                   = N * N

\* a 2x2 table with an empty cell
C6_Witness ==
    /\ ChiDone
    /\ Len(chi.cont.cells) = 2 /\ Len(chi.cont.cells[1]) = 2
    /\ chi.cont.cells[1][2] = 0
    /\ chi.dof = 1

C8_DirsBeforeWrites ==
    /\ [](files # {} =>
            /\ \A d \in Dirs : fs[d] = "dir"
            /\ pc \notin {"makedirs_fig", "makedirs_out"})
    /\ [][/\ pc = "makedirs_fig" /\ fs[FIG_DIR] = "dir" =>
                pc' = "makedirs_out" /\ fs' = fs
          /\ pc = "makedirs_out" /\ fs[OUT_DIR] = "dir" =>
                pc' = "load_claims" /\ fs' = fs]_vars

\* the first directory-creation step is over and the second is about to run
\* on a directory that already exists
C8_Witness ==
    /\ pc = "makedirs_out"
    /\ \A d \in Dirs : fs[d] = "dir"

\* C9: the histogram's count in every bin equals the Frequency of the
\* corresponding row of the frequency table.
C9_HistogramMatchesTable ==
    HistDone => \A j \in DOMAIN freq_df : hist[j] = freq_df[j].Frequency

\* C10: every amount counted in a row lies in the closed interval [lo, hi]
\* of that row's label, and the labels ascend.
C10_LabelsNameCountedValues ==
    FreqDone =>
        LET a == Amount(claims)
        IN  /\ \A i \in DOMAIN a :
                   LET j == Cut(a[i], bins)
                   IN  j # 0 =>
                         /\ freq_df[j].Range.lo * Scale <= a[i]
                         /\ a[i] <= freq_df[j].Range.hi * Scale
            /\ \A j \in 1..(Len(freq_df) - 1) :
                   freq_df[j].Range.hi < freq_df[j + 1].Range.lo

====
